---- MODULE Spec2Model ----
(***************************************************************************)
(* A model of the /api/backtest request handler of src/index.js: the       *)
(* strategy host (fetch, clean, marker check, eval, invocation), the       *)
(* settings normalizer, the candle pipeline (lookup, parse, date filter,   *)
(* resample) and the process-global names the handler writes.              *)
(***************************************************************************)
EXTENDS Integers, Sequences, FiniteSets, TLC

VARIABLES
    glob,          \* the process-global object (the names the handler can touch)
    pc,            \* per request slot: "idle", "fetch", "json" or "stuck"
    inflight,      \* per request slot: the body of the request in flight
    last,          \* the request that has just left the handler
    served,        \* requests accepted so far
    loopBlocked,   \* the event loop is stuck in a strategy that never returns
    failedBefore,  \* the strategy of some filed request threw partway through
    supplied,      \* Settings Normalizer on its own: the caller's settings
    normalized,    \* Settings Normalizer on its own: communitySettings
    strategyResult,    \* Result Normalizer on its own: what runStrategy returned
    requestSettings,   \* Result Normalizer on its own: the request's settings
    normalizedResult,  \* Result Normalizer on its own: normalizedResult
    filteredCandles,   \* convertTimeframe on its own: the candles given
    targetTimeframe,   \* convertTimeframe on its own: the timeframe given
    convertedCandles   \* convertTimeframe on its own: the candles returned

\* The variables of the serving process, of the Settings Normalizer, of the
\* Result Normalizer and of convertTimeframe.
hostVars == <<glob, pc, inflight, last, served, loopBlocked, failedBefore>>
settingsVars == <<supplied, normalized>>
resultVars == <<strategyResult, requestSettings, normalizedResult>>
resampleVars == <<filteredCandles, targetTimeframe, convertedCandles>>

(***************************************************************************)
(* JavaScript values.  A value is a record [t, v]: t is the type tag and v *)
(* the literal, always a string, so that any two values can be compared.   *)
(***************************************************************************)
JsUndefined == [t |-> "undefined", v |-> ""]
JsNull == [t |-> "null", v |-> ""]
JsFalse == [t |-> "bool", v |-> "false"]
JsTrue == [t |-> "bool", v |-> "true"]
Num(lit) == [t |-> "num", v |-> lit]
Str(lit) == [t |-> "str", v |-> lit]
Fn(name) == [t |-> "fn", v |-> name]
Bool(b) == IF b THEN JsTrue ELSE JsFalse

\* ToBoolean: what `x || d` and `!x` test.
Truthy(x) ==
    CASE x.t = "undefined" -> FALSE
      [] x.t = "null" -> FALSE
      [] x.t = "bool" -> x.v = "true"
      [] x.t = "num" -> x.v \notin {"0", "-0", "NaN"}
      [] x.t = "str" -> x.v # ""
      [] OTHER -> TRUE

\* settings.key : a property read; an absent key reads as undefined.
Get(obj, k) == IF k \in DOMAIN obj THEN obj[k] ELSE JsUndefined

\* a || b written without its right operand.
JsOr_NoDefault(a, b) == a

\* a || b
JsOr(a, b) == IF Truthy(a) THEN a ELSE b

\* a !== false
NotFalse(a) == Bool(a # JsFalse)

(***************************************************************************)
(* Settings Normalizer (the communitySettings object literal).             *)
(***************************************************************************)
\* The keys written as `key: settings.key || default`, `settings.key !== false`
\* or the fee rule: the recognized knobs.
Knobs == {
    "leverage", "equityPercent", "compoundEnabled", "maxPositionSize",
    "stopLoss", "stopLossPercent", "stopLossPoints", "stopLossATR",
    "takeProfit", "takeProfitPercent", "takeProfitPoints", "takeProfitATR",
    "trailingStop", "trailingStopPercent", "trailingStopDistance",
    "trailingStopTrigger", "breakEvenEnabled", "breakEvenTrigger",
    "breakEvenOffset", "maxDrawdown", "maxDailyLoss", "maxConsecutiveLosses",
    "partialCloseEnabled", "partialClosePercent", "partialCloseTrigger",
    "partialClose2Enabled", "partialClose2Percent", "partialClose2Trigger",
    "scalingInEnabled", "scalingInLevels", "scalingInDistance",
    "scalingOutEnabled", "scalingOutLevels", "scalingOutDistance",
    "martingaleEnabled", "martingaleMultiplier", "maxMartingaleLevel",
    "martingaleOnLoss", "antiMartingaleEnabled", "antiMartingaleMultiplier",
    "recoveryEnabled", "recoveryTarget", "recoveryMethod", "maxPositions",
    "maxLongPositions", "maxShortPositions", "maxDailyTrades",
    "maxWeeklyTrades", "masterLongEnabled", "masterShortEnabled",
    "masterReverse", "tradingHours", "sessionStart", "sessionEnd",
    "avoidWeekends", "avoidMonday", "avoidFriday", "volumeFilter",
    "volatilityFilter", "spreadFilter", "trendFilter", "priceFilter",
    "atrPeriod", "atrMultiplier", "hedgingEnabled", "hedgingDistance",
    "hedgingMultiplier", "gridTradingEnabled", "gridLevels", "gridDistance",
    "pyramidingEnabled", "pyramidingLevels", "pyramidingDistance",
    "pyramidingMultiplier", "feePercent", "slippage", "orderTimeout",
    "requireConfirmation", "newsFilterEnabled", "newsAvoidMinutes",
    "minCandlesRequired", "warmupPeriod" }

\* The knobs written as `settings.key !== false`.
NotFalseKnobs == {"martingaleOnLoss", "masterLongEnabled", "masterShortEnabled"}

\* The right operand of `settings.key || <default>` where it is a literal.
Defaults ==
    [k \in Knobs \ (NotFalseKnobs \cup {"feePercent"}) |->
      CASE
        k = "leverage" -> Num("10") []
        k = "equityPercent" -> Num("10") []
        k = "compoundEnabled" -> JsFalse []
        k = "maxPositionSize" -> Num("10000000") []
        k = "stopLoss" -> JsNull []
        k = "stopLossPercent" -> JsNull []
        k = "stopLossPoints" -> JsNull []
        k = "stopLossATR" -> JsNull []
        k = "takeProfit" -> JsNull []
        k = "takeProfitPercent" -> JsNull []
        k = "takeProfitPoints" -> JsNull []
        k = "takeProfitATR" -> JsNull []
        k = "trailingStop" -> JsNull []
        k = "trailingStopPercent" -> JsNull []
        k = "trailingStopDistance" -> JsNull []
        k = "trailingStopTrigger" -> JsNull []
        k = "breakEvenEnabled" -> JsFalse []
        k = "breakEvenTrigger" -> JsNull []
        k = "breakEvenOffset" -> Num("0") []
        k = "maxDrawdown" -> Num("50") []
        k = "maxDailyLoss" -> JsNull []
        k = "maxConsecutiveLosses" -> JsNull []
        k = "partialCloseEnabled" -> JsFalse []
        k = "partialClosePercent" -> Num("50") []
        k = "partialCloseTrigger" -> JsNull []
        k = "partialClose2Enabled" -> JsFalse []
        k = "partialClose2Percent" -> Num("25") []
        k = "partialClose2Trigger" -> JsNull []
        k = "scalingInEnabled" -> JsFalse []
        k = "scalingInLevels" -> Num("3") []
        k = "scalingInDistance" -> JsNull []
        k = "scalingOutEnabled" -> JsFalse []
        k = "scalingOutLevels" -> Num("3") []
        k = "scalingOutDistance" -> JsNull []
        k = "martingaleEnabled" -> JsFalse []
        k = "martingaleMultiplier" -> Num("2") []
        k = "maxMartingaleLevel" -> Num("5") []
        k = "antiMartingaleEnabled" -> JsFalse []
        k = "antiMartingaleMultiplier" -> Num("1.5") []
        k = "recoveryEnabled" -> JsFalse []
        k = "recoveryTarget" -> Num("100") []
        k = "recoveryMethod" -> Str("grid") []
        k = "maxPositions" -> Num("1") []
        k = "maxLongPositions" -> JsNull []
        k = "maxShortPositions" -> JsNull []
        k = "maxDailyTrades" -> JsNull []
        k = "maxWeeklyTrades" -> JsNull []
        k = "masterReverse" -> JsFalse []
        k = "tradingHours" -> JsNull []
        k = "sessionStart" -> JsNull []
        k = "sessionEnd" -> JsNull []
        k = "avoidWeekends" -> JsFalse []
        k = "avoidMonday" -> JsFalse []
        k = "avoidFriday" -> JsFalse []
        k = "volumeFilter" -> Num("0") []
        k = "volatilityFilter" -> JsNull []
        k = "spreadFilter" -> JsNull []
        k = "trendFilter" -> JsNull []
        k = "priceFilter" -> JsNull []
        k = "atrPeriod" -> Num("14") []
        k = "atrMultiplier" -> Num("2") []
        k = "hedgingEnabled" -> JsFalse []
        k = "hedgingDistance" -> JsNull []
        k = "hedgingMultiplier" -> Num("1") []
        k = "gridTradingEnabled" -> JsFalse []
        k = "gridLevels" -> Num("5") []
        k = "gridDistance" -> JsNull []
        k = "pyramidingEnabled" -> JsFalse []
        k = "pyramidingLevels" -> Num("3") []
        k = "pyramidingDistance" -> JsNull []
        k = "pyramidingMultiplier" -> Num("1") []
        k = "slippage" -> Num("0") []
        k = "orderTimeout" -> JsNull []
        k = "requireConfirmation" -> JsFalse []
        k = "newsFilterEnabled" -> JsFalse []
        k = "newsAvoidMinutes" -> Num("30") []
        k = "minCandlesRequired" -> Num("50") []
        k = "warmupPeriod" -> Num("100")]

\* The fee default written without the market-type test.
KnobDefault_FlatFee(k, settings) ==
    IF k = "feePercent" THEN Num("0.05") ELSE Defaults[k]

\* The right operand of `settings.key || <default>`.
KnobDefault(k, settings) ==
    IF k = "feePercent"
    THEN IF Get(settings, "market_type") = Str("spot")
         THEN Num("0.1") ELSE Num("0.05")
    ELSE Defaults[k]

\* The knob entries of the object literal.
KnobEntries(settings) ==
    [k \in Knobs |->
        IF k \in NotFalseKnobs THEN NotFalse(Get(settings, k))
        ELSE JsOr(Get(settings, k), KnobDefault(k, settings))]

\* The object literal: the spread of the caller's settings, then every knob.
communitySettings(settings) == KnobEntries(settings) @@ settings

(***************************************************************************)
(* Indicator library: the keys of the `indicators` object.                 *)
(***************************************************************************)
indicators == {
    "calculateSMA", "calculateEMA", "calculateSMMA", "calculateLWMA",
    "calculateAMA", "calculateRSI", "calculateStochastic", "calculateMACD",
    "calculateCCI", "calculateMomentum", "calculateWilliamsR",
    "calculateDeMarker", "calculateRVI", "calculateBB", "calculateEnvelopes",
    "calculateDonchian", "calculateKeltner", "calculateStdDev", "calculateATR",
    "calculateSAR", "calculateIchimoku", "calculateADX", "calculateSuperTrend",
    "calculateAroon", "calculateOBV", "calculateAD", "calculateMFI",
    "calculateVWAP", "calculateAO", "calculateAC", "calculateAlligator",
    "calculateFractals", "calculateGator", "calculateBWMFI",
    "calculateBearsPower", "calculateBullsPower", "calculateForceIndex",
    "calculateElderRay", "calculatePivot", "calculateFibonacci", "isDoji",
    "isHammer", "isBullishEngulfing", "isBearishEngulfing", "isMorningStar",
    "isEveningStar", "isPinBar", "isInsideBar", "findSwingHigh",
    "findSwingLow", "isHigherHigh", "isLowerLow", "findSupportResistance" }

(***************************************************************************)
(* Strategy text.  A text is a sequence of chunks [k, n]: n characters of  *)
(* kind k.  Kinds: the lead words "heres" (Here's), "the" (The), "this"    *)
(* (This); "prose" (no colon, no line break); "colon"; "sp" (blanks);      *)
(* "nl" (line breaks); the fences "fence_js" (```javascript), "fence_json" *)
(* (```json), "fence" (```); "marker" (function runStrategy); "comment"    *)
(* (a // opener) and "code" (other program text, holding line breaks).     *)
(***************************************************************************)
Chunk(k, n) == [k |-> k, n |-> n]

\* 'function runStrategy'.length
MarkerWidth == 20

\* js_code.substring(0, 500)
PreviewLimit == 500

Marker == Chunk("marker", MarkerWidth)

RECURSIVE TextLen(_)
TextLen(t) == IF t = <<>> THEN 0 ELSE t[1].n + TextLen(Tail(t))

IsSpace(c) == c.k \in {"sp", "nl"}

\* `.` does not match a line break.
HasLineBreak(c) == c.k \in {"nl", "code"}

RECURSIVE DropLeadingSpace(_)
DropLeadingSpace(t) ==
    IF t # <<>> /\ IsSpace(t[1]) THEN DropLeadingSpace(Tail(t)) ELSE t

RECURSIVE DropTrailingSpace(_)
DropTrailingSpace(t) ==
    IF t # <<>> /\ IsSpace(t[Len(t)])
    THEN DropTrailingSpace(SubSeq(t, 1, Len(t) - 1)) ELSE t

\* .replace(/^<lead>.*?:\s*/i, ''): a text that starts with the lead word loses
\* everything up to the first colon of its first line, and the blanks after it.
StripLead(t, lead) ==
    IF t = <<>> \/ t[1].k # lead THEN t
    ELSE LET colons == {i \in 2..Len(t) : t[i].k = "colon"}
         IN  IF colons = {} THEN t
             ELSE LET i == CHOOSE c \in colons : \A d \in colons : c <= d
                  IN  IF \E j \in 2..(i - 1) : HasLineBreak(t[j]) THEN t
                      ELSE DropLeadingSpace(SubSeq(t, i + 1, Len(t)))

\* .replace(/<fence>\n?/g, ''): every fence goes, with one line break after it.
RECURSIVE RemoveFence(_, _)
RemoveFence(t, fence) ==
    IF t = <<>> THEN <<>>
    ELSE IF t[1].k = fence
         THEN LET rest == Tail(t)
              IN  IF rest # <<>> /\ rest[1].k = "nl"
                  THEN RemoveFence(
                         IF rest[1].n > 1
                         THEN <<Chunk("nl", rest[1].n - 1)>> \o Tail(rest)
                         ELSE Tail(rest), fence)
                  ELSE RemoveFence(rest, fence)
         ELSE <<t[1]>> \o RemoveFence(Tail(t), fence)

\* .trim()
Trim(t) == DropTrailingSpace(DropLeadingSpace(t))

\* The cleaning chain applied to js_code.
CleanCode(raw) ==
    Trim(RemoveFence(RemoveFence(RemoveFence(
        StripLead(StripLead(StripLead(raw, "heres"), "the"), "this"),
        "fence_js"), "fence_json"), "fence"))

\* js_code.includes('function runStrategy')
IncludesMarker(t) == \E i \in 1..Len(t) : t[i] = Marker

\* js_code.substring(0, n)
RECURSIVE substring(_, _)
substring(t, n) ==
    IF t = <<>> \/ n <= 0 THEN <<>>
    ELSE IF t[1].n <= n THEN <<t[1]>> \o substring(Tail(t), n - t[1].n)
    ELSE <<Chunk(t[1].k, n)>>

\* p is the text t cut after some number of characters.
IsPrefixOf(p, t) == \E n \in 0..TextLen(t) : p = substring(t, n)

(***************************************************************************)
(* Candle store and candle pipeline.                                       *)
(***************************************************************************)
\* The two files the lookup can find for the request's symbol, as lines of
\* fields; a blank line is the empty sequence.
CsvText(file) ==
    IF file = "plain"
    THEN << <<"timestamp", "open", "high", "low", "close", "volume">>,
            <<0, 100, 105, 99, 101, 10>>,
            <<60000, 101, 108, 100, 107, 20>>,
            <<120000, 107, 109, 95, 96, 5>>,
            <<300000, 96, 98, 90, 97, 7>>,
            <<360000, 97, 120, 97, 118, 30>>,
            <<>> >>
    ELSE << <<"timestamp", "open", "high", "low", "close", "volume">>,
            <<0, 50, 55, 49, 51, 1>>,
            <<300000, 51, 60, 50, 59, 2>> >>

\* csvText.split('\n').filter(line => line.trim()), lines.shift(), lines.map(...)
ParseCsv(csvText) ==
    LET lines == SelectSeq(csvText, LAMBDA line : Len(line) > 0)
        rows == Tail(lines)
    IN  [i \in 1..Len(rows) |->
            [timestamp |-> rows[i][1], open |-> rows[i][2], high |-> rows[i][3],
             low |-> rows[i][4], close |-> rows[i][5], volume |-> rows[i][6]]]

\* new Date(x).getTime() for the date strings requests use; NaN for the rest.
DateMs ==
    ("1970-01-01T00:00:00Z" :> 0) @@ ("1970-01-01T00:01:00Z" :> 60000) @@
    ("1970-01-01T00:06:00Z" :> 360000) @@ ("1970-01-01T00:10:00Z" :> 600000)

GetTime(x) ==
    IF x.t = "str" /\ x.v \in DOMAIN DateMs
    THEN [nan |-> FALSE, ms |-> DateMs[x.v]]
    ELSE [nan |-> TRUE, ms |-> 0]

\* allCandles.filter(c => c.timestamp >= startTs && c.timestamp <= endTs)
DateFilter(allCandles, settings) ==
    LET startTs == GetTime(Get(settings, "startDate"))
        endTs == GetTime(Get(settings, "endDate"))
    IN  SelectSeq(allCandles, LAMBDA c :
            /\ ~startTs.nan /\ c.timestamp >= startTs.ms
            /\ ~endTs.nan /\ c.timestamp <= endTs.ms)

intervals ==
    ("5m" :> 5) @@ ("15m" :> 15) @@ ("30m" :> 30) @@ ("1h" :> 60) @@
    ("4h" :> 240) @@ ("1d" :> 1440)

MaxOf(S) == CHOOSE x \in S : \A y \in S : x >= y
MinOf(S) == CHOOSE x \in S : \A y \in S : x <= y

RECURSIVE SumVolume(_)
SumVolume(bucket) ==
    IF bucket = <<>> THEN 0 ELSE bucket[1].volume + SumVolume(Tail(bucket))

\* The candle pushed for a finished bucket.
BucketCandle(bucketStart, currentBucket) ==
    [timestamp |-> bucketStart,
     open |-> currentBucket[1].open,
     high |-> MaxOf({currentBucket[i].high : i \in 1..Len(currentBucket)}),
     low |-> MinOf({currentBucket[i].low : i \in 1..Len(currentBucket)}),
     close |-> currentBucket[Len(currentBucket)].close,
     volume |-> SumVolume(currentBucket)]

\* The for-loop of convertTimeframe and the push after it.
RECURSIVE BucketLoop(_, _, _, _, _)
BucketLoop(candles, targetMs, started, bucketStart, currentBucket) ==
    IF candles = <<>>
    THEN IF currentBucket # <<>>
         THEN <<BucketCandle(bucketStart, currentBucket)>> ELSE <<>>
    ELSE LET candle == Head(candles)
             bucketTimestamp == (candle.timestamp \div targetMs) * targetMs
         IN  IF ~started \/ bucketStart # bucketTimestamp
             THEN (IF currentBucket # <<>>
                   THEN <<BucketCandle(bucketStart, currentBucket)>> ELSE <<>>)
                  \o BucketLoop(Tail(candles), targetMs, TRUE, bucketTimestamp,
                                <<candle>>)
             ELSE BucketLoop(Tail(candles), targetMs, TRUE, bucketStart,
                             Append(currentBucket, candle))

\* The names every object literal inherits from Object.prototype:
\* intervals[name] is a function or an object for them, never undefined.
InheritedKeys ==
    {"constructor", "toString", "toLocaleString", "valueOf", "hasOwnProperty",
     "isPrototypeOf", "propertyIsEnumerable", "__proto__"}

\* The candle pushed for a bucket whose start is NaN: it has no timestamp
\* that is a number, which the field timestampNaN stands for.
NaNBucketCandle(currentBucket) ==
    [timestampNaN |-> TRUE,
     open |-> currentBucket[1].open,
     high |-> MaxOf({currentBucket[i].high : i \in 1..Len(currentBucket)}),
     low |-> MinOf({currentBucket[i].low : i \in 1..Len(currentBucket)}),
     close |-> currentBucket[Len(currentBucket)].close,
     volume |-> SumVolume(currentBucket)]

\* The for-loop and the push after it when targetMs is NaN: bucketTimestamp
\* is NaN for every candle and `bucketStart !== bucketTimestamp` holds every
\* time, so every candle is a bucket of its own.
NaNBucketLoop(candles) ==
    [i \in 1..Len(candles) |-> NaNBucketCandle(<<candles[i]>>)]

convertTimeframe(candles, timeframe) ==
    IF timeframe = Str("1m") THEN candles
    ELSE IF timeframe.t = "str" /\ timeframe.v \in DOMAIN intervals
         THEN BucketLoop(candles, intervals[timeframe.v] * 60 * 1000,
                         FALSE, 0, <<>>)
         ELSE IF timeframe.t = "str" /\ timeframe.v \in InheritedKeys
         THEN NaNBucketLoop(candles)
         ELSE candles

\* Steps 4 and 5 swapped: resample the whole file, then cut the date range.
PrepareCandles_ResampleFirst(file, settings) ==
    DateFilter(convertTimeframe(ParseCsv(CsvText(file)),
                                Get(settings, "timeframe")), settings)

\* Steps 3 to 5 of the handler on the file that was read.
PrepareCandles(file, settings) ==
    convertTimeframe(DateFilter(ParseCsv(CsvText(file)), settings),
                     Get(settings, "timeframe"))

(***************************************************************************)
(* Requests: the bodies callers send and the strategies the strategy       *)
(* service returns.  A strategy is its text and what that text does when   *)
(* evaluated: whether evaluation throws, whether it declares the function  *)
(* runStrategy, and what a call of runStrategy does.                       *)
(***************************************************************************)
BaseSettings ==
    ("symbol" :> Str("BTCUSDT")) @@ ("market_type" :> Str("futures")) @@
    ("timeframe" :> Str("1m")) @@ ("startDate" :> Str("1970-01-01T00:00:00Z")) @@
    ("endDate" :> Str("1970-01-01T00:10:00Z")) @@ ("initialBalance" :> Num("10000"))

With(obj, k, val) == (k :> val) @@ obj

\* req.body.settings of each request body; "nosettings" sends none.
Bodies == {"base", "tuned", "console", "parseInt", "indicator", "nosettings"}

HasSettings(body) == body # "nosettings"

SettingsOf(body) ==
    CASE body = "tuned" ->
           With(With(With(BaseSettings, "timeframe", Str("5m")),
                     "startDate", Str("1970-01-01T00:01:00Z")),
                "rsiPeriod", Num("7"))
      [] body = "console" -> With(BaseSettings, "console", Num("0"))
      [] body = "parseInt" -> With(BaseSettings, "parseInt", Num("0"))
      [] body = "indicator" -> With(BaseSettings, "calculateRSI", Num("14"))
      [] OTHER -> BaseSettings

Thrown(t, message) == [t |-> t, message |-> message]
NoThrow == Thrown("none", "")

Strategy(raw, evalThrown, defines, run, thrown, ret) ==
    [raw |-> raw, evalThrown |-> evalThrown, defines |-> defines, run |-> run,
     thrown |-> thrown, ret |-> ret]

Strategies ==
    {"plain", "fenced", "nomarker", "prosemarker", "comment", "syntax",
     "throws", "throwsShort", "throwsNull", "returnsNull", "noTrades", "hang",
     "empty"}

StrategyOf(id) ==
    CASE id = "plain" ->
           Strategy(<<Marker, Chunk("code", 700)>>, NoThrow, TRUE, "return",
                    NoThrow, "result")
      [] id = "fenced" ->
           Strategy(<<Chunk("heres", 6), Chunk("prose", 20), Chunk("colon", 1),
                      Chunk("nl", 2), Chunk("fence_js", 13), Chunk("nl", 1),
                      Marker, Chunk("code", 300), Chunk("nl", 1),
                      Chunk("fence", 3), Chunk("nl", 1)>>,
                    NoThrow, TRUE, "return", NoThrow, "ambient")
      [] id = "nomarker" ->
           Strategy(<<Chunk("code", 200)>>, NoThrow, FALSE, "return", NoThrow,
                    "result")
      [] id = "prosemarker" ->
           Strategy(<<Chunk("the", 3), Chunk("sp", 1), Marker, Chunk("colon", 1),
                      Chunk("sp", 1), Chunk("code", 100)>>,
                    NoThrow, FALSE, "return", NoThrow, "result")
      [] id = "comment" ->
           Strategy(<<Chunk("comment", 3), Marker, Chunk("nl", 1),
                      Chunk("code", 100)>>,
                    NoThrow, FALSE, "return", NoThrow, "result")
      [] id = "syntax" ->
           Strategy(<<Marker, Chunk("code", 40)>>,
                    Thrown("error", "Unexpected token"), FALSE, "return",
                    NoThrow, "result")
      [] id = "throws" ->
           Strategy(<<Marker, Chunk("code", 600)>>, NoThrow, TRUE, "throw",
                    Thrown("error", "boom"), "result")
      [] id = "throwsShort" ->
           Strategy(<<Marker, Chunk("code", 80)>>, NoThrow, TRUE, "throw",
                    Thrown("error", "bang"), "result")
      [] id = "throwsNull" ->
           Strategy(<<Marker, Chunk("code", 90)>>, NoThrow, TRUE, "throw",
                    Thrown("null", ""), "result")
      [] id = "returnsNull" ->
           Strategy(<<Marker, Chunk("code", 110)>>, NoThrow, TRUE, "return",
                    NoThrow, "null")
      [] id = "noTrades" ->
           Strategy(<<Marker, Chunk("code", 120)>>, NoThrow, TRUE, "return",
                    NoThrow, "notrades")
      [] id = "hang" ->
           Strategy(<<Marker, Chunk("code", 130)>>, NoThrow, TRUE, "hang",
                    NoThrow, "result")
      [] OTHER ->
           Strategy(<<>>, NoThrow, FALSE, "return", NoThrow, "result")

\* What a returning runStrategy(candles, settings) hands back, given the
\* ambient names it can read: "ambient" strategies read the bare name
\* rsiPeriod when it is defined.
backtestResult(strategy, candles, settings, ambient) ==
    [isNull |-> strategy.ret = "null",
     hasTrades |-> strategy.ret \in {"result", "ambient"},
     roi |-> IF strategy.ret = "ambient" /\ ambient["rsiPeriod"] # JsUndefined
             THEN ambient["rsiPeriod"]
             ELSE IF Len(candles) > 0 THEN Num("12") ELSE Num("0")]

(***************************************************************************)
(* The process-global object.                                              *)
(***************************************************************************)
Names ==
    {"console", "parseInt"} \cup indicators \cup Knobs
    \cup UNION {DOMAIN SettingsOf(b) : b \in Bodies}

\* The global object of a fresh process, restricted to Names.
FreshGlobal ==
    [n \in Names |-> IF n \in {"console", "parseInt"} THEN Fn(n) ELSE JsUndefined]

\* console.log / console.error can be called.
ConsoleWorks(g) == g["console"] = Fn("console")

\* parseInt(timestamp) can be called.
ParseIntWorks(g) == g["parseInt"] = Fn("parseInt")

\* for (const [key, fn] of Object.entries(indicators)) global[key] = fn.bind(indicators)
InjectIndicators(g) == [n \in indicators |-> Fn(n)] @@ g

\* for (const [key, value] of Object.entries(communitySettings)) global[key] = value
ExposeSettings(g, cs) == cs @@ g

(***************************************************************************)
(* Responses and the outcome of a run of handler code.                     *)
(***************************************************************************)
\* The keys of normalizedResult.
ResultFields ==
    {"trades", "equity_curve", "roi", "mdd", "win_rate", "total_trades",
     "long_trades", "short_trades", "winning_trades", "losing_trades",
     "max_profit", "max_loss", "avg_profit", "avg_loss", "avg_duration",
     "max_duration", "total_fee", "final_balance", "initial_balance", "symbol",
     "timeframe"}

\* res.status(status).json({error: prefix + message, ...})
ErrorResponse(status, prefix, message, fields, preview) ==
    [status |-> status, prefix |-> prefix, message |-> message,
     fields |-> fields, code_preview |-> preview, roi |-> JsUndefined]

\* The strings here that start with a decimal literal, and that literal.
NumericPrefix ==
    ("7.5" :> "7.5") @@ ("12abc" :> "12") @@ ("5000" :> "5000") @@
    ("Infinity" :> "Infinity")

\* parseFloat(x): the number the string of x starts with, NaN when it starts
\* with none.
parseFloat(x) ==
    IF x.t = "num" THEN (IF x.v = "-0" THEN Num("0") ELSE x)
    ELSE IF x.t = "str" /\ x.v \in DOMAIN NumericPrefix
    THEN Num(NumericPrefix[x.v])
    ELSE Num("NaN")

\* res.json(normalizedResult)
ResultResponse(result) ==
    [status |-> 200, prefix |-> "", message |-> "", fields |-> ResultFields,
     code_preview |-> <<>>, roi |-> JsOr(parseFloat(result.roi), Num("0"))]

\* What a stretch of handler code leaves behind: the responses sent, whether
\* an error escaped the async handler, whether the event loop is stuck in it,
\* the collaborators it touched in order, the global object, and the calls of
\* runStrategy it made.
Outcome(responses, escaped, blocked, log, g, calls) ==
    [responses |-> responses, escaped |-> escaped, blocked |-> blocked,
     log |-> log, glob |-> g, calls |-> calls]

Respond(response, log, g, calls) ==
    Outcome(<<response>>, FALSE, FALSE, log, g, calls)

\* } catch (error) { console.error(...); res.status(500).json({error, stack}) }
OuterCatch(message, log, g, calls) ==
    IF ConsoleWorks(g)
    THEN Respond(ErrorResponse(500, "", message, {"error", "stack"}, <<>>),
                 log, g, calls)
    ELSE Outcome(<<>>, TRUE, FALSE, log, g, calls)

\* } catch (evalError) { console.error(...); res.status(500).json({...}) }
InnerCatch(evalError, js_code, log, g, calls) ==
    IF ~ConsoleWorks(g)
    THEN OuterCatch("console.error is not a function", log, g, calls)
    ELSE IF evalError.t = "null"
    THEN OuterCatch("Cannot read properties of null (reading 'message')",
                    log, g, calls)
    ELSE Respond(ErrorResponse(500, "Strategy execution failed: ",
                               IF evalError.t = "error" THEN evalError.message
                               ELSE "undefined",
                               {"error", "stack", "code_preview"},
                               substring(js_code, PreviewLimit)),
                 log, g, calls)

(***************************************************************************)
(* The handler of POST /api/backtest, one operator per stretch of code     *)
(* that runs without yielding to the event loop.                           *)
(***************************************************************************)
\* The lookup trying the prefixed name first and the plain name second.
CandleLookup_PrefixedFirst(files) ==
    LET filePath == IF files["prefixed"] THEN "prefixed" ELSE "plain"
    IN  [log |-> <<"existsSync:prefixed", "existsSync:" \o filePath>>,
         filePath |-> filePath,
         found |-> files[filePath]]

\* Step 2: the file the handler settles on, and the existence checks it makes.
CandleLookup(files) ==
    LET filePath == IF files["plain"] THEN "plain" ELSE "prefixed"
    IN  [log |-> <<"existsSync:plain", "existsSync:" \o filePath>>,
         filePath |-> filePath,
         found |-> files[filePath]]

\* Step 9: the try block around eval and runStrategy, and its catch.
Execute(js_code, strategy, candles, cs, log, g) ==
    LET evalLog == Append(log, "eval")
        callLog == Append(evalLog, "runStrategy")
        calls == <<[candles |-> candles, settings |-> cs, ambient |-> g]>>
        result == backtestResult(strategy, candles, cs, g)
    IN  IF strategy.evalThrown.t # "none"
        THEN InnerCatch(strategy.evalThrown, js_code, evalLog, g, <<>>)
        ELSE IF ~strategy.defines
        THEN InnerCatch(Thrown("error", "runStrategy function not found in strategy code"),
                        js_code, evalLog, g, <<>>)
        ELSE IF strategy.run = "hang"
        THEN Outcome(<<>>, FALSE, TRUE, callLog, g, calls)
        ELSE IF strategy.run = "throw"
        THEN InnerCatch(strategy.thrown, js_code, callLog, g, calls)
        ELSE IF result.isNull \/ ~result.hasTrades
        THEN InnerCatch(Thrown("error", "Invalid backtest result: missing trades array"),
                        js_code, callLog, g, calls)
        ELSE IF ~ConsoleWorks(g)
        THEN InnerCatch(Thrown("error", "console.log is not a function"),
                        js_code, callLog, g, calls)
        ELSE Respond(ResultResponse(result), callLog, g, calls)

\* Steps 6 to 9 without step 8: the settings are not written to the global
\* object before the strategy runs.
HostStrategy_NoExposure(js_code, strategy, candles, settings, log, g) ==
    Execute(js_code, strategy, candles, communitySettings(settings),
            log \o <<"global:indicators", "global:settings">>,
            InjectIndicators(g))

\* Steps 6 to 9: indicator injection, settings normalization, settings
\* exposure, execution.
HostStrategy(js_code, strategy, candles, settings, log, g) ==
    LET cs == communitySettings(settings)
        exposed == ExposeSettings(InjectIndicators(g), cs)
    IN  Execute(js_code, strategy, candles, cs,
                log \o <<"global:indicators", "global:settings">>, exposed)

\* Steps 2 to 9 with the indicator injection of step 6 moved in front of the
\* candle lookup.
LoadAndRun_ExposeFirst(js_code, strategy, settings, files, log, g) ==
    LET injected == InjectIndicators(g)
        lookup == CandleLookup(files)
        lookupLog == Append(log, "global:indicators") \o lookup.log
        readLog == Append(lookupLog, "readFileSync:" \o lookup.filePath)
    IN  IF ~ConsoleWorks(g)
        THEN OuterCatch("console.log is not a function", log, g, <<>>)
        ELSE IF Get(settings, "market_type").t # "str"
        THEN OuterCatch("The \"path\" argument must be of type string",
                        log, g, <<>>)
        ELSE IF ~lookup.found
        THEN Respond(ErrorResponse(404, "Candle file not found: ",
                                   Get(settings, "symbol").v, {"error"}, <<>>),
                     lookupLog, injected, <<>>)
        ELSE IF ~ParseIntWorks(g)
        THEN OuterCatch("parseInt is not a function", readLog, injected, <<>>)
        ELSE HostStrategy(js_code, strategy,
                          PrepareCandles(lookup.filePath, settings), settings,
                          readLog, injected)

\* Steps 2 to 9, after the marker check passed.
LoadAndRun(js_code, strategy, settings, files, log, g) ==
    LET lookup == CandleLookup(files)
        lookupLog == log \o lookup.log
        readLog == Append(lookupLog, "readFileSync:" \o lookup.filePath)
    IN  IF ~ConsoleWorks(g)
        THEN OuterCatch("console.log is not a function", log, g, <<>>)
        ELSE IF Get(settings, "market_type").t # "str"
        THEN OuterCatch("The \"path\" argument must be of type string",
                        log, g, <<>>)
        ELSE IF ~lookup.found
        THEN Respond(ErrorResponse(404, "Candle file not found: ",
                                   Get(settings, "symbol").v, {"error"}, <<>>),
                     lookupLog, g, <<>>)
        ELSE IF ~ParseIntWorks(g)
        THEN OuterCatch("parseInt is not a function", readLog, g, <<>>)
        ELSE HostStrategy(js_code, strategy,
                          PrepareCandles(lookup.filePath, settings), settings,
                          readLog, g)

\* The marker looked for in the text as fetched, before it is cleaned.
AfterJson_MarkerOnRaw(strategy, settings, files, g) ==
    LET js_code == CleanCode(strategy.raw)
    IN  IF strategy.raw = <<>>
        THEN Respond(ErrorResponse(404, "", "Strategy has no code", {"error"}, <<>>),
                     <<>>, g, <<>>)
        ELSE IF ~IncludesMarker(strategy.raw)
        THEN Respond(ErrorResponse(400, "",
                        "Invalid strategy code: missing runStrategy function",
                        {"error"}, <<>>),
                     <<>>, g, <<>>)
        ELSE LoadAndRun(js_code, strategy, settings, files, <<>>, g)

\* The code after `await strategyRes.json()` resolved with the strategy's text.
AfterJson(strategy, settings, files, g) ==
    LET js_code == CleanCode(strategy.raw)
    IN  IF strategy.raw = <<>>
        THEN Respond(ErrorResponse(404, "", "Strategy has no code", {"error"}, <<>>),
                     <<>>, g, <<>>)
        ELSE IF ~IncludesMarker(js_code)
        THEN Respond(ErrorResponse(400, "",
                        "Invalid strategy code: missing runStrategy function",
                        {"error"}, <<>>),
                     <<>>, g, <<>>)
        ELSE LoadAndRun(js_code, strategy, settings, files, <<>>, g)

\* The code after `await fetch(strategyUrl)` resolved with a non-ok status.
StrategyNotFound(g) ==
    Respond(ErrorResponse(404, "", "Strategy not found", {"error"}, <<>>),
            <<>>, g, <<>>)

\* Lines 751-762: the code up to `await fetch(strategyUrl)`.
BeforeFetch(body, g) ==
    IF ~ConsoleWorks(g)
    THEN [continue |-> FALSE,
          out |-> OuterCatch("console.log is not a function", <<>>, g, <<>>)]
    ELSE IF ~HasSettings(body)
    THEN [continue |-> FALSE,
          out |-> OuterCatch("Cannot read properties of undefined (reading 'symbol')",
                             <<>>, g, <<>>)]
    ELSE [continue |-> TRUE, out |-> Outcome(<<>>, FALSE, FALSE, <<>>, g, <<>>)]

\* Lines 764-768: the code between the two awaits, given how the fetch ended.
AfterFetch(fetched, g) ==
    IF fetched = "rejected"
    THEN [continue |-> FALSE, out |-> OuterCatch("fetch failed", <<>>, g, <<>>)]
    ELSE IF fetched = "notok"
    THEN [continue |-> FALSE, out |-> StrategyNotFound(g)]
    ELSE [continue |-> TRUE, out |-> Outcome(<<>>, FALSE, FALSE, <<>>, g, <<>>)]

\* Lines 768-1536: the code after `await strategyRes.json()`, given what the
\* body parsed to: a strategy of the catalogue, or no JSON at all.
AfterBody(json, body, files, g) ==
    IF json = "badjson"
    THEN OuterCatch("Unexpected token in JSON", <<>>, g, <<>>)
    ELSE AfterJson(StrategyOf(json), SettingsOf(body), files, g)

\* The whole handler run in one piece on the global object g: what a request
\* gets when no other request runs between its awaits.
Handle(body, fetched, json, files, g) ==
    IF ~BeforeFetch(body, g).continue THEN BeforeFetch(body, g).out
    ELSE IF ~AfterFetch(fetched, g).continue THEN AfterFetch(fetched, g).out
    ELSE AfterBody(json, body, files, g)

(***************************************************************************)
(* Result Normalizer, per trade.  The fields of a trade hold numbers that  *)
(* are multiplied and rounded and strings that are searched and            *)
(* upper-cased, so a value here is a record [t, m, e, s]: a number is the  *)
(* decimal m * 10^e (m not divisible by 10, or 0 with e = 0), a string is  *)
(* the sequence s of its characters.                                       *)
(***************************************************************************)
Absent == [t |-> "undefined", m |-> 0, e |-> 0, s |-> <<>>]
Null == [t |-> "null", m |-> 0, e |-> 0, s |-> <<>>]
Text(chars) == [t |-> "str", m |-> 0, e |-> 0, s |-> chars]

\* The number m * 10^e in its one canonical form.
RECURSIVE Number(_, _)
Number(m, e) ==
    IF m = 0 THEN [t |-> "num", m |-> 0, e |-> 0, s |-> <<>>]
    ELSE IF m % 10 = 0 THEN Number(m \div 10, e + 1)
    ELSE [t |-> "num", m |-> m, e |-> e, s |-> <<>>]

Zero == Number(0, 0)

\* t.key : a property read of a trade; an absent key reads as undefined.
Field(t, k) == IF k \in DOMAIN t THEN t[k] ELSE Absent

\* ToBoolean of a trade's field.
IsTruthy(x) ==
    CASE x.t = "num" -> x.m # 0
      [] x.t = "str" -> x.s # <<>>
      [] OTHER -> FALSE

\* a * b on numbers.
Times(a, b) == Number(a.m * b.m, a.e + b.e)

\* x > 0
GreaterThanZero(x) == x.t = "num" /\ x.m > 0

\* parseFloat(x.toFixed(digits)): the decimal with `digits` places nearest to
\* x, the one of larger magnitude when two are equally near.
toFixed(x, digits) ==
    IF x.e >= -digits THEN x
    ELSE LET p == 10 ^ (-digits - x.e)
             a == IF x.m < 0 THEN -x.m ELSE x.m
             n == (a + p \div 2) \div p
         IN  Number(IF x.m < 0 THEN -n ELSE n, -digits)

\* s.toUpperCase()
Lower ==
    <<"a", "b", "c", "d", "e", "f", "g", "h", "i", "j", "k", "l", "m", "n",
      "o", "p", "q", "r", "s", "t", "u", "v", "w", "x", "y", "z">>
Upper ==
    <<"A", "B", "C", "D", "E", "F", "G", "H", "I", "J", "K", "L", "M", "N",
      "O", "P", "Q", "R", "S", "T", "U", "V", "W", "X", "Y", "Z">>
toUpperCase(chars) ==
    [i \in 1..Len(chars) |->
        IF \E j \in 1..26 : Lower[j] = chars[i]
        THEN Upper[CHOOSE j \in 1..26 : Lower[j] = chars[i]]
        ELSE chars[i]]

\* s.includes(pattern)
includes(chars, pattern) ==
    \E i \in 0..(Len(chars) - Len(pattern)) :
        SubSeq(chars, i + 1, i + Len(pattern)) = pattern

BUY == <<"B", "U", "Y">>
SELL == <<"S", "E", "L", "L">>
LONG == <<"L", "O", "N", "G">>
MARKET == <<"M", "A", "R", "K", "E", "T">>

\* .filter(t => t.balance && t.balance > 0), written to keep every trade.
KeepTrade_All(t) == TRUE

\* .filter(t => t.balance && t.balance > 0)
KeepTrade(t) ==
    IsTruthy(Field(t, "balance")) /\ GreaterThanZero(Field(t, "balance"))

\* const side = t.side ? t.side.toUpperCase() : null
Side(t) ==
    IF IsTruthy(Field(t, "side")) THEN Text(toUpperCase(Field(t, "side").s))
    ELSE Null

\* The order type left as the strategy gave it, never prefixed.
OrderType_NoPrefix(t) ==
    IF IsTruthy(Field(t, "order_type")) THEN Field(t, "order_type")
    ELSE Text(MARKET)

\* The order type prefixed whenever the trade has a side.
OrderType_AlwaysPrefix(t) ==
    LET orderType == IF IsTruthy(Field(t, "order_type"))
                     THEN Field(t, "order_type") ELSE Text(MARKET)
    IN  IF Side(t) # Null
        THEN Text((IF Side(t).s = LONG THEN BUY ELSE SELL) \o <<" ">>
                  \o orderType.s)
        ELSE orderType

\* let orderType = t.order_type || 'MARKET'; if (side && !orderType.includes(
\* 'BUY') && !orderType.includes('SELL')) orderType = `${prefix} ${orderType}`
OrderType(t) ==
    LET orderType == IF IsTruthy(Field(t, "order_type"))
                     THEN Field(t, "order_type") ELSE Text(MARKET)
    IN  IF /\ Side(t) # Null
           /\ ~includes(orderType.s, BUY) /\ ~includes(orderType.s, SELL)
        THEN Text((IF Side(t).s = LONG THEN BUY ELSE SELL) \o <<" ">>
                  \o orderType.s)
        ELSE orderType

\* const coinSize = t.size || 0
CoinSize(t) == IF IsTruthy(Field(t, "size")) THEN Field(t, "size") ELSE Zero

\* const usdtSize = t.entry_price && coinSize ? coinSize * t.entry_price : 0
\* (an entry price is a number, null or absent here)
UsdtSize(t) ==
    IF IsTruthy(Field(t, "entry_price")) /\ IsTruthy(CoinSize(t))
    THEN Times(CoinSize(t), Field(t, "entry_price")) ELSE Zero

\* The callback of .map throws a TypeError on this trade: a method is called
\* on a value that has none of that name (toUpperCase on a side that is not
\* a string, includes on an order type that is not a string, toFixed on a
\* size that is not a number).
MapThrows(t) ==
    \/ IsTruthy(Field(t, "side")) /\ Field(t, "side").t # "str"
    \/ /\ IsTruthy(Field(t, "side")) /\ IsTruthy(Field(t, "order_type"))
       /\ Field(t, "order_type").t # "str"
    \/ IsTruthy(Field(t, "size")) /\ Field(t, "size").t # "num"

\* The object the callback of .map returns: {...t, coin_size, usdt_size,
\* order_type, side}.
NormalizeTrade(t) ==
    [coin_size |-> IF IsTruthy(CoinSize(t)) THEN toFixed(CoinSize(t), 8)
                   ELSE Zero,
     usdt_size |-> IF IsTruthy(UsdtSize(t)) THEN toFixed(UsdtSize(t), 2)
                   ELSE Zero,
     order_type |-> OrderType(t),
     side |-> Side(t)] @@ t

\* (backtestResult.trades || []).filter(...).map(...): the trades reported,
\* or threw when the callback throws on a trade that was kept.
NormalizeTrades(trades) ==
    LET kept == SelectSeq(trades, KeepTrade)
    IN  IF \E i \in 1..Len(kept) : MapThrows(kept[i])
        THEN [threw |-> TRUE, trades |-> <<>>]
        ELSE [threw |-> FALSE,
              trades |-> [i \in 1..Len(kept) |-> NormalizeTrade(kept[i])]]

(***************************************************************************)
(* Result Normalizer, the summary fields, and the body res.json sends.     *)
(***************************************************************************)
\* The summary fields read through parseFloat, and those read as they are.
ParsedFields ==
    {"roi", "mdd", "win_rate", "max_profit", "max_loss", "avg_profit",
     "avg_loss", "total_fee"}
CountFields ==
    {"total_trades", "long_trades", "short_trades", "winning_trades",
     "losing_trades", "avg_duration", "max_duration"}

EmptyArray == [t |-> "array", v |-> "[]"]

\* The fields of normalizedResult other than trades.
NormalizeSummary(result, settings) ==
    [k \in ResultFields \ {"trades"} |->
        CASE k = "equity_curve" -> JsOr(Get(result, k), EmptyArray)
          [] k \in ParsedFields -> JsOr(parseFloat(Get(result, k)), Num("0"))
          [] k \in CountFields -> JsOr(Get(result, k), Num("0"))
          [] k = "final_balance" ->
               JsOr(JsOr(parseFloat(Get(result, k)),
                         Get(settings, "initialBalance")), Num("10000"))
          [] k = "initial_balance" ->
               JsOr(Get(settings, "initialBalance"), Num("10000"))
          [] OTHER -> Get(settings, k)]

\* JSON.stringify of a value: a number that is not finite is written null.
ToJson(x) ==
    IF x.t = "num" /\ x.v \in {"NaN", "Infinity", "-Infinity"} THEN JsNull
    ELSE x

\* res.json(obj): JSON.stringify leaves out the keys whose value is
\* undefined or a function.
JsonBody(obj) ==
    [k \in {j \in DOMAIN obj : obj[j].t \notin {"undefined", "fn"}} |->
        ToJson(obj[k])]

\* What the normalizer makes of the value runStrategy returned: whether the
\* per-trade callback threw, the trades reported and the other fields.
NormalizeResult(result, settings) ==
    LET reported == NormalizeTrades(result.trades)
    IN  [threw |-> reported.threw, trades |-> reported.trades,
         summary |-> NormalizeSummary(result.fields, settings)]

\* A result with no trades and no summary fields, and the settings a request
\* needs for its candle file to be found.
EmptyResult == [trades |-> <<>>, fields |-> <<>>]
MinimalSettings ==
    ("symbol" :> Str("BTCUSDT")) @@ ("market_type" :> Str("futures"))

(***************************************************************************)
(* The serving process: requests in flight on the event loop.              *)
(***************************************************************************)
\* Requests the process may have in flight at once.
Requests == {"r1", "r2"}

\* Requests accepted in a run of the model.
MaxServed == 3

\* How a fetch of the strategy ends, and what its body parses to.
FetchResults == {"ok", "notok", "rejected"}
JsonResults == Strategies \cup {"badjson"}
FileStates == [{"plain", "prefixed"} -> BOOLEAN]
NoFiles == [f \in {"plain", "prefixed"} |-> FALSE]

\* The handler gets as far as asking the candle store for the file.
ReachesLookup(json, body, g) ==
    LET log == AfterBody(json, body, NoFiles, g).log
    IN  \E i \in 1..Len(log) : log[i] = "existsSync:plain"

\* The request that has just left the handler: what it was given and what it
\* did.  It is on record until Settle files it; NoRequest when none is.
Finished(b, fetched, json, files, out) ==
    [body |-> b, fetched |-> fetched, json |-> json, files |-> files,
     responses |-> out.responses, escaped |-> out.escaped,
     blocked |-> out.blocked, log |-> out.log, calls |-> out.calls]

NoRequest ==
    Finished("none", "none", "none", NoFiles,
             Outcome(<<>>, FALSE, FALSE, <<>>, FreshGlobal, <<>>))

\* The response is the 500 of the inner catch.
IsExecutionError(f) ==
    /\ Len(f.responses) = 1
    /\ f.responses[1].status = 500
    /\ f.responses[1].prefix = "Strategy execution failed: "

\* The request's runStrategy threw and the request got the inner catch's 500.
ThrewPartway(f) ==
    /\ IsExecutionError(f)
    /\ f.calls # <<>>
    /\ StrategyOf(f.json).run = "throw"

Init ==
    /\ glob = FreshGlobal
    /\ pc = [r \in Requests |-> "idle"]
    /\ inflight = [r \in Requests |-> "none"]
    /\ last = NoRequest
    /\ served = 0
    /\ loopBlocked = FALSE
    /\ failedBefore = FALSE
    /\ supplied = <<>>
    /\ normalized = communitySettings(<<>>)
    /\ strategyResult = EmptyResult
    /\ requestSettings = MinimalSettings
    /\ normalizedResult = NormalizeResult(EmptyResult, MinimalSettings)
    /\ filteredCandles = <<>>
    /\ targetTimeframe = Str("5m")
    /\ convertedCandles = convertTimeframe(<<>>, Str("5m"))

\* The request r leaves the handler with outcome out.
Leave(r, b, fetched, json, files, out) ==
    /\ glob' = out.glob
    /\ pc' = [pc EXCEPT ![r] = IF out.blocked THEN "stuck" ELSE "idle"]
    /\ inflight' = [inflight EXCEPT ![r] = IF out.blocked THEN b ELSE "none"]
    /\ last' = Finished(b, fetched, json, files, out)
    /\ loopBlocked' = out.blocked
    /\ UNCHANGED <<failedBefore, supplied, normalized, resultVars, resampleVars>>

\* A request arrives, takes the first free slot and runs up to its first await.
Start(r) ==
    /\ ~loopBlocked /\ last = NoRequest /\ pc[r] = "idle" /\ served < MaxServed
    /\ r = "r1" \/ pc["r1"] # "idle"
    /\ \E b \in Bodies :
         LET step == BeforeFetch(b, glob)
         IN  /\ served' = served + 1
             /\ IF step.continue
                THEN /\ pc' = [pc EXCEPT ![r] = "fetch"]
                     /\ inflight' = [inflight EXCEPT ![r] = b]
                     /\ UNCHANGED <<glob, last, loopBlocked, failedBefore, supplied,
                                     normalized, resultVars, resampleVars>>
                ELSE Leave(r, b, "none", "none", NoFiles,
                           step.out)

\* The fetch settles and the handler runs up to its second await.
FetchDone(r) ==
    /\ ~loopBlocked /\ last = NoRequest /\ pc[r] = "fetch"
    /\ \E fetched \in FetchResults :
         LET step == AfterFetch(fetched, glob)
         IN  /\ UNCHANGED served
             /\ IF step.continue
                THEN /\ pc' = [pc EXCEPT ![r] = "json"]
                     /\ UNCHANGED <<glob, inflight, last, loopBlocked, failedBefore,
                                     supplied, normalized, resultVars,
                                     resampleVars>>
                ELSE Leave(r, inflight[r], fetched, "none", NoFiles, step.out)

\* The body is read and the handler runs to its end.
JsonDone(r) ==
    /\ ~loopBlocked /\ last = NoRequest /\ pc[r] = "json"
    /\ \E json \in JsonResults :
       \E files \in IF ReachesLookup(json, inflight[r], glob)
                    THEN FileStates ELSE {NoFiles} :
         /\ UNCHANGED served
         /\ Leave(r, inflight[r], "ok", json, files,
                  AfterBody(json, inflight[r], files, glob))

\* The record of the request that just left is filed: it is remembered only
\* whether some request so far had its strategy throw partway through.
Settle ==
    /\ last # NoRequest
    /\ last' = NoRequest
    /\ failedBefore' = (failedBefore \/ ThrewPartway(last))
    /\ UNCHANGED <<glob, pc, inflight, served, loopBlocked, supplied, normalized,
                   resultVars, resampleVars>>

Next ==
    \/ \E r \in Requests : Start(r) \/ FetchDone(r) \/ JsonDone(r)
    \/ Settle

vars ==
    <<glob, pc, inflight, last, served, loopBlocked, failedBefore, supplied,
      normalized, strategyResult, requestSettings, normalizedResult,
      filteredCandles, targetTimeframe, convertedCandles>>

Spec == Init /\ [][Next]_vars

(***************************************************************************)
(* The Settings Normalizer on its own: a caller builds a settings mapping  *)
(* key by key and the normalizer is applied to it.                         *)
(***************************************************************************)
\* Keys a caller supplies at most.
MaxSupplied == 1

\* The keys callers set here: every knob, the market type and a key of the
\* strategy's own.
SuppliedKeys == Knobs \cup {"market_type", "rsiPeriod"}

\* The JSON values callers give them.
SuppliedValues ==
    {JsNull, JsFalse, JsTrue, Num("0"), Num("7"), Str(""), Str("spot"),
     Str("futures")}

SetKey(k, val) ==
    /\ Cardinality(DOMAIN supplied) < MaxSupplied
    /\ k \notin DOMAIN supplied
    /\ supplied' = With(supplied, k, val)
    /\ normalized' = communitySettings(supplied')
    /\ UNCHANGED <<hostVars, resultVars, resampleVars>>

NextSettings == \E k \in SuppliedKeys, val \in SuppliedValues : SetKey(k, val)

SpecSettings == Init /\ [][NextSettings]_vars

(***************************************************************************)
(* The Result Normalizer on its own, per trade: a strategy's result gets   *)
(* its trades one by one, the normalizer is applied to it, and a reported  *)
(* list of trades can be handed back as a strategy's result.               *)
(***************************************************************************)
\* Trades in a strategy's result at most.
MaxTrades == 2

Without(obj, k) == [j \in DOMAIN obj \ {k} |-> obj[j]]

\* A trade as strategies write them: a long position of half a coin at 100.
BaseTrade ==
    ("balance" :> Number(1000, 0)) @@ ("size" :> Number(5, -1)) @@
    ("entry_price" :> Number(100, 0)) @@
    ("side" :> Text(<<"l", "o", "n", "g">>))

\* The trades strategies return here: BaseTrade with one field, or the size
\* and the price, given another value or left out.
TradeCatalogue ==
    {BaseTrade, Without(BaseTrade, "balance"), Without(BaseTrade, "size"),
     Without(BaseTrade, "entry_price"), Without(BaseTrade, "side"),
     Without(With(BaseTrade, "order_type", Text(<<"l", "i", "m", "i", "t">>)),
             "side")}
    \cup {With(BaseTrade, "balance", b) :
            b \in {Null, Zero, Number(-50, 0), Number(900, 0)}}
    \cup {With(BaseTrade, "size", x) :
            x \in {Zero, Number(-5, -1), Number(4, -9), Number(123456784, -9),
                   Text(<<"0", ".", "5">>)}}
    \cup {With(With(BaseTrade, "size", x), "entry_price", Number(1, 7)) :
            x \in {Number(4, -9), Number(123456784, -9)}}
    \cup {With(BaseTrade, "order_type", o) :
            o \in {Text(<<"l", "i", "m", "i", "t">>),
                   Text(<<"b", "u", "y", " ", "l", "i", "m", "i", "t">>),
                   Text(BUY \o <<" ", "L", "I", "M", "I", "T">>),
                   Text(SELL \o <<" ", "S", "T", "O", "P">>),
                   Number(7, 0)}}
    \cup {With(BaseTrade, "side", d) :
            d \in {Null, Text(<<>>), Text(LONG),
                   Text(<<"s", "h", "o", "r", "t">>),
                   Text(<<"S", "h", "o", "r", "t">>),
                   Text(<<"b", "u", "y">>)}}

\* The result a strategy returns for these trades: it counts them itself.
ResultWith(trades) ==
    [trades |-> trades,
     fields |-> ("total_trades" :> Num(ToString(Len(trades))))]

\* The strategy's result gets one more trade, stamped with its position.
PushTrade(t) ==
    /\ Len(strategyResult.trades) < MaxTrades
    /\ strategyResult' =
         ResultWith(Append(strategyResult.trades,
                           With(t, "entry_time",
                                Number(Len(strategyResult.trades) + 1, 0))))
    /\ normalizedResult' = NormalizeResult(strategyResult', requestSettings)
    /\ UNCHANGED <<hostVars, settingsVars, requestSettings, resampleVars>>

\* The trades reported are fed back to the normalizer as a strategy's result.
Renormalize ==
    /\ ~normalizedResult.threw
    /\ normalizedResult.trades # strategyResult.trades
    /\ strategyResult' = ResultWith(normalizedResult.trades)
    /\ normalizedResult' = NormalizeResult(strategyResult', requestSettings)
    /\ UNCHANGED <<hostVars, settingsVars, requestSettings, resampleVars>>

NextTrades ==
    \/ \E t \in TradeCatalogue : PushTrade(t)
    \/ Renormalize

SpecTrades == Init /\ [][NextTrades]_vars

(***************************************************************************)
(* The Result Normalizer on its own, the summary fields: a strategy's      *)
(* result gets summary fields, the request gets the settings the           *)
(* normalizer reads, and the normalizer is applied.                        *)
(***************************************************************************)
\* Summary fields a strategy's result carries at most.
MaxFields == 1

\* The summary fields strategies set and the values they give them.
SummaryKeys == ResultFields \ {"trades", "initial_balance", "symbol", "timeframe"}
SummaryValues ==
    {JsNull, Num("0"), Num("12.5"), Num("-3"), Num("NaN"), Num("Infinity"),
     Str("7.5"), Str("abc")}

\* The settings the normalizer reads that a caller may give or leave out.
RequestKeys == {"timeframe", "initialBalance"}
RequestValues ==
    [timeframe |-> {Str("1m"), Str("5m")},
     initialBalance |-> {JsNull, Num("0"), Num("5000"), Str("abc")}]

SetResultField(k, val) ==
    /\ Cardinality(DOMAIN strategyResult.fields) < MaxFields
    /\ k \notin DOMAIN strategyResult.fields
    /\ strategyResult' = [strategyResult EXCEPT !.fields = With(@, k, val)]
    /\ normalizedResult' = NormalizeResult(strategyResult', requestSettings)
    /\ UNCHANGED <<hostVars, settingsVars, requestSettings, resampleVars>>

SetRequestKey(k, val) ==
    /\ k \notin DOMAIN requestSettings
    /\ requestSettings' = With(requestSettings, k, val)
    /\ normalizedResult' = NormalizeResult(strategyResult, requestSettings')
    /\ UNCHANGED <<hostVars, settingsVars, strategyResult, resampleVars>>

NextResult ==
    \/ \E k \in SummaryKeys, val \in SummaryValues : SetResultField(k, val)
    \/ \E k \in RequestKeys : \E val \in RequestValues[k] : SetRequestKey(k, val)

SpecResult == Init /\ [][NextResult]_vars

(***************************************************************************)
(* convertTimeframe on its own: a candle sequence grows candle by candle,  *)
(* in the order the candle file lists them, and is resampled.              *)
(***************************************************************************)
\* Candles in a sequence at most.
MaxCandles == 3

\* The timestamps candle files carry here, and the timeframes requests name.
Timestamps == {0, 60000, 240000, 300000, 840000, 900000, 3600000, 86400000}
Timeframes ==
    {Str("1m"), Str("5m"), Str("15m"), Str("30m"), Str("1h"), Str("4h"),
     Str("1d"), Str("2h"), Str("constructor"), JsUndefined}

\* The n-th candle of a file, at timestamp ts.
CandleAt(ts, n) ==
    [timestamp |-> ts, open |-> 100 + 10 * n, high |-> 105 + 10 * n,
     low |-> 95 + 10 * n, close |-> 101 + 10 * n, volume |-> n]

PushCandle(ts) ==
    /\ Len(filteredCandles) < MaxCandles
    /\ filteredCandles' =
         Append(filteredCandles, CandleAt(ts, Len(filteredCandles) + 1))
    /\ convertedCandles' = convertTimeframe(filteredCandles', targetTimeframe)
    /\ UNCHANGED <<hostVars, settingsVars, resultVars, targetTimeframe>>

SetTimeframe(tf) ==
    /\ tf # targetTimeframe
    /\ targetTimeframe' = tf
    /\ convertedCandles' = convertTimeframe(filteredCandles, tf)
    /\ UNCHANGED <<hostVars, settingsVars, resultVars, filteredCandles>>

NextResample ==
    \/ \E ts \in Timestamps : PushCandle(ts)
    \/ \E tf \in Timeframes : SetTimeframe(tf)

SpecResample == Init /\ [][NextResample]_vars

(***************************************************************************)
(* Properties.                                                             *)
(***************************************************************************)
\* A request has just left the handler.
Left == last # NoRequest

\* The request that just left got the strategy's text from the service.
GotText == Left /\ last.fetched = "ok" /\ last.json \in Strategies

LastStrategy == StrategyOf(last.json)
LastClean == CleanCode(LastStrategy.raw)

InLog(e) == \E i \in 1..Len(last.log) : last.log[i] = e

\* Events of the candle store and of the strategy host in the log.
StoreEvents ==
    {"existsSync:plain", "existsSync:prefixed", "readFileSync:plain",
     "readFileSync:prefixed"}

\* The request was answered once, with this status.
AnsweredWith(statuses) ==
    /\ ~last.escaped
    /\ Len(last.responses) = 1
    /\ last.responses[1].status \in statuses

\* What the same request gets from a process that has served nothing before.
Solo == Handle(last.body, last.fetched, last.json, last.files, FreshGlobal)

\* C1: a request whose cleaned strategy text lacks the marker
\* 'function runStrategy' is answered with a 4xx status (400 when there is a
\* text at all), and on that path the candle store is never asked whether a
\* file exists, no candle file is read and the text is never evaluated.
C1_MarkerMissingRejected ==
    (GotText /\ ~IncludesMarker(LastClean)) =>
        /\ AnsweredWith(400..499)
        /\ LastStrategy.raw # <<>> => AnsweredWith({400})
        /\ \A e \in StoreEvents \cup {"eval", "runStrategy"} : ~InLog(e)
        /\ last.calls = <<>>

\* A text that holds the marker as fetched and loses it in cleaning was
\* rejected with 400.
C1_Witness ==
    /\ GotText /\ last.json = "prosemarker"
    /\ IncludesMarker(LastStrategy.raw) /\ ~IncludesMarker(LastClean)
    /\ AnsweredWith({400})

\* C2 (as claimed): a text that does not define a callable runStrategy is
\* answered with a 4xx status and no part of it is evaluated.
C2_UndefinedNeverEvaluated ==
    (GotText /\ ~LastStrategy.defines) =>
        /\ AnsweredWith(400..499)
        /\ ~InLog("eval")

\* C3 (as claimed): a runStrategy that returns null or a value without trades
\* makes the request fail with a 4xx status, not with a 500.
C3_MissingTradesIs400 ==
    (/\ GotText /\ last.calls # <<>>
     /\ LastStrategy.run = "return"
     /\ LastStrategy.ret \in {"null", "notrades"}) =>
        AnsweredWith(400..499)

\* The strategy's text threw when evaluated, or its runStrategy threw.
LastThrew ==
    /\ GotText /\ InLog("eval")
    /\ \/ LastStrategy.evalThrown.t # "none"
       \/ LastStrategy.defines /\ LastStrategy.run = "throw"

LastThrown ==
    IF LastStrategy.evalThrown.t # "none"
    THEN LastStrategy.evalThrown ELSE LastStrategy.thrown

\* C4 (as claimed): when evaluation or invocation throws, the error stays in
\* the handler, the response is a 500 with the thrown error's message, and
\* its preview is a prefix of the cleaned text, at most 500 characters long
\* and never the whole text.
C4_ThrowIsContained ==
    LastThrew =>
        /\ AnsweredWith({500})
        /\ last.responses[1].message = LastThrown.message
        /\ "code_preview" \in last.responses[1].fields
        /\ IsPrefixOf(last.responses[1].code_preview, LastClean)
        /\ TextLen(last.responses[1].code_preview) <= PreviewLimit
        /\ last.responses[1].code_preview # LastClean

\* C5 (as claimed): once a request's strategy threw partway through and the
\* request was answered with an execution error, a later well-formed request
\* still gets its normal successful result.
C5_ServesAfterFailure ==
    (/\ failedBefore /\ Left
     /\ Len(Solo.responses) = 1 /\ Solo.responses[1].status = 200) =>
        last.responses = Solo.responses

\* C6 (as claimed): what a request's strategy observes (its arguments and
\* the ambient names) and the request's response depend on the request alone,
\* not on what the process served before.
C6_NoSharedState ==
    Left => /\ last.calls = Solo.calls
            /\ last.responses = Solo.responses
            /\ last.escaped = Solo.escaped

\* The file the lookup settles on in the store the request saw.
LastFile == IF last.files["plain"] THEN "plain" ELSE "prefixed"

\* C7: runStrategy is invoked at most once per request, once in every
\* request answered with a result, and its first argument is the whole
\* candle sequence: the parsed file cut to the date range, then resampled.
C7_CalledOnceWithPreparedCandles ==
    Left =>
        /\ Len(last.calls) <= 1
        /\ (Len(last.responses) = 1 /\ last.responses[1].status = 200)
              => Len(last.calls) = 1
        /\ last.calls # <<>> =>
              last.calls[1].candles =
                 convertTimeframe(
                    DateFilter(ParseCsv(CsvText(LastFile)), SettingsOf(last.body)),
                    Get(SettingsOf(last.body), "timeframe"))

\* A request for 5-minute candles from the second minute on was run on the
\* two buckets its date range leaves.
C7_Witness ==
    /\ Left /\ last.body = "tuned" /\ Len(last.calls) = 1
    /\ Len(last.calls[1].candles) = 2
    /\ last.calls[1].candles[1].open = 101
    /\ AnsweredWith({200})

\* C8 (as claimed): a request that leaves the handler was answered exactly
\* once, with the whole result or with an error body without result fields.
C8_ExactlyOneResponse ==
    (Left /\ ~last.blocked) =>
        /\ ~last.escaped
        /\ Len(last.responses) = 1
        /\ \/ /\ last.responses[1].status = 200
              /\ last.responses[1].fields = ResultFields
           \/ /\ last.responses[1].status >= 400
              /\ "error" \in last.responses[1].fields
              /\ last.responses[1].fields \cap ResultFields = {}

\* C9: whatever the caller supplies, every recognized knob is a key of the
\* normalized settings and its value is not undefined.
C9_KnobsDefined ==
    \A k \in Knobs : k \in DOMAIN normalized /\ normalized[k] # JsUndefined

\* The caller set a knob to null and the normalized settings define it.
C9_Witness ==
    \E k \in Knobs :
        /\ k \in DOMAIN supplied /\ supplied[k] = JsNull
        /\ \A j \in Knobs \ {k} : j \notin DOMAIN supplied
        /\ k \in DOMAIN normalized /\ normalized[k] # JsUndefined

\* The default the code documents for a knob the caller left out.
DocumentedDefault(k) ==
    IF k \in NotFalseKnobs THEN JsTrue ELSE KnobDefault(k, supplied)

\* C10 (as claimed): a knob holds the caller's value whenever the caller
\* supplied one (0, false and "" included) and the default only otherwise.
C10_CallerValueKept ==
    \A k \in Knobs :
        normalized[k] = IF k \in DOMAIN supplied THEN supplied[k]
                        ELSE DocumentedDefault(k)

\* C11: when the caller's settings leave feePercent out, the normalized
\* feePercent is 0.1 for market_type "spot" and 0.05 for market_type "futures".
C11_FeeDefaultByMarket ==
    "feePercent" \notin DOMAIN supplied =>
        /\ Get(supplied, "market_type") = Str("spot") =>
               normalized["feePercent"] = Num("0.1")
        /\ Get(supplied, "market_type") = Str("futures") =>
               normalized["feePercent"] = Num("0.05")

\* The caller named the spot market and no fee, and the fee came out as 0.1.
C11_Witness ==
    /\ "feePercent" \notin DOMAIN supplied
    /\ Get(supplied, "market_type") = Str("spot")
    /\ normalized["feePercent"] = Num("0.1")

\* The trades of the strategy's result and the trades reported.
RawTrades == strategyResult.trades
Reported == normalizedResult.trades

\* The trade carries a balance that is a number above zero.
HasPositiveBalance(t) ==
    "balance" \in DOMAIN t /\ t["balance"].t = "num" /\ t["balance"].m > 0

\* The keys the per-trade transform writes.
ComputedKeys == {"coin_size", "usdt_size", "order_type", "side"}

\* C12: the trades reported are the raw trades with a balance above zero, in
\* their order and with their other fields as they were; none of them lacks
\* a balance or has one that is zero or negative.
C12_PositiveBalanceKept ==
    ~normalizedResult.threw =>
        LET kept == SelectSeq(RawTrades, HasPositiveBalance)
        IN  /\ Len(Reported) = Len(kept)
            /\ \A i \in 1..Len(Reported) :
                 /\ HasPositiveBalance(Reported[i])
                 /\ \A k \in DOMAIN kept[i] \ ComputedKeys :
                      k \in DOMAIN Reported[i] /\ Reported[i][k] = kept[i][k]

\* A trade without a positive balance came before one with a positive
\* balance, and only the second is reported.
C12_Witness ==
    /\ ~normalizedResult.threw
    /\ Len(RawTrades) = 2 /\ Len(Reported) = 1
    /\ ~HasPositiveBalance(RawTrades[1])
    /\ Reported[1]["entry_time"] = RawTrades[2]["entry_time"]

\* C13 (as claimed): every reported trade has coin_size >= 0, whatever size
\* the strategy put on the raw trade.
C13_CoinSizeNonNegative ==
    ~normalizedResult.threw =>
        \A i \in 1..Len(Reported) : Reported[i]["coin_size"].m >= 0

\* C14 (as claimed): every reported trade's usdt_size is its reported
\* coin_size times its entry_price rounded to 2 places, and 0 when the size
\* or the entry price is absent.
C14_UsdtFromReportedCoinSize ==
    ~normalizedResult.threw =>
        \A i \in 1..Len(Reported) :
            LET t == Reported[i]
            IN  t["usdt_size"] =
                  IF Field(t, "size").t = "num" /\ Field(t, "entry_price").t = "num"
                  THEN toFixed(Times(t["coin_size"], t["entry_price"]), 2)
                  ELSE Zero

\* C15: every reported trade with a side has BUY or SELL in its order type.
C15_OrderTypeHasDirection ==
    ~normalizedResult.threw =>
        \A i \in 1..Len(Reported) :
            Reported[i]["side"] # Null =>
                \/ includes(Reported[i]["order_type"].s, BUY)
                \/ includes(Reported[i]["order_type"].s, SELL)

\* A raw trade named its direction in lower case only, and the reported order
\* type got the prefix in front of it.
C15_Witness ==
    /\ ~normalizedResult.threw
    /\ \E i \in 1..Len(Reported) :
         /\ Reported[i]["side"] = Text(LONG)
         /\ Reported[i]["order_type"] =
              Text(BUY \o <<" ", "b", "u", "y", " ", "l", "i", "m", "i", "t">>)

\* C16: normalizing the reported trades again drops none of them and leaves
\* every field of every trade as it is.
C16_NormalizeIdempotent ==
    ~normalizedResult.threw =>
        NormalizeTrades(Reported) = [threw |-> FALSE, trades |-> Reported]

\* Reported trades, one of them with a prefixed order type, were fed back and
\* came out the same.
C16_Witness ==
    /\ ~normalizedResult.threw
    /\ RawTrades # <<>>
    /\ \A i \in 1..Len(RawTrades) : ComputedKeys \subseteq DOMAIN RawTrades[i]
    /\ \E i \in 1..Len(RawTrades) :
         RawTrades[i]["order_type"] = Text(BUY \o <<" ">> \o MARKET)
    /\ Reported = RawTrades

\* The body res.json writes for the summary fields.
SummaryBody == JsonBody(normalizedResult.summary)

\* A finite number.
IsFinite(x) == x.t = "num" /\ x.v \notin {"NaN", "Infinity", "-Infinity"}

\* C17 (as claimed): final_balance in the response is a finite number, and it
\* equals initial_balance when the strategy's result has no final_balance.
C17_FinalBalanceFinite ==
    /\ "final_balance" \in DOMAIN SummaryBody
    /\ IsFinite(SummaryBody["final_balance"])
    /\ "final_balance" \notin DOMAIN strategyResult.fields =>
          /\ "initial_balance" \in DOMAIN SummaryBody
          /\ SummaryBody["final_balance"] = SummaryBody["initial_balance"]

\* C18 (as claimed): each coerced summary field is in the response and is not
\* NaN; it is the strategy's value when that is a finite number, and the
\* default (0, or initial_balance for final_balance) when the strategy's
\* value is absent, null, NaN or a string that holds no number.
C18_NumericValueKept ==
    \A k \in ParsedFields \cup {"final_balance"} :
        LET x == Get(strategyResult.fields, k)
            d == IF k = "final_balance"
                 THEN normalizedResult.summary["initial_balance"] ELSE Num("0")
        IN  /\ k \in DOMAIN SummaryBody
            /\ SummaryBody[k] # Num("NaN")
            /\ IsFinite(x) => SummaryBody[k] = x
            /\ x \in {JsUndefined, JsNull, Num("NaN"), Str("abc")} =>
                  SummaryBody[k] = d

\* C19 (as claimed): the response carries every field of the response schema.
C19_EveryFieldPresent ==
    {"trades"} \cup DOMAIN SummaryBody = ResultFields

\* The buckets of width ms the timestamps of the candles fall in.
BucketsOf(candles, ms) ==
    {candles[i].timestamp \div ms : i \in 1..Len(candles)}

\* C20 (as claimed): resampled to one of the six timeframes, a candle
\* sequence gives one candle per distinct bucket its timestamps fall in,
\* with the open of the first and the close of the last input candle of
\* that bucket.
C20_OneCandlePerBucket ==
    (targetTimeframe.t = "str" /\ targetTimeframe.v \in DOMAIN intervals) =>
        LET ms == intervals[targetTimeframe.v] * 60 * 1000
            inBucket(b) ==
                SelectSeq(filteredCandles, LAMBDA c : c.timestamp \div ms = b)
        IN  /\ Len(convertedCandles) =
                 Cardinality(BucketsOf(filteredCandles, ms))
            /\ \A b \in BucketsOf(filteredCandles, ms) :
                 \E i \in 1..Len(convertedCandles) :
                    /\ convertedCandles[i].timestamp = b * ms
                    /\ convertedCandles[i].open = inBucket(b)[1].open
                    /\ convertedCandles[i].close =
                         inBucket(b)[Len(inBucket(b))].close

\* C21 (as claimed): for a recognized timeframe every emitted candle has the
\* start of its bucket as timestamp, and the maximum high, the minimum low
\* and the sum of the volumes of the input candles falling in that bucket;
\* for "1m" and for every timeframe that is not recognized the input
\* sequence is returned as it is.
C21_AggregatesAndPassthrough ==
    IF targetTimeframe.t = "str" /\ targetTimeframe.v \in DOMAIN intervals
    THEN LET ms == intervals[targetTimeframe.v] * 60 * 1000
             inBucket(b) ==
                 SelectSeq(filteredCandles, LAMBDA c : c.timestamp \div ms = b)
         IN  \A i \in 1..Len(convertedCandles) :
                \E b \in BucketsOf(filteredCandles, ms) :
                    LET bucket == inBucket(b)
                    IN  /\ convertedCandles[i].timestamp = b * ms
                        /\ convertedCandles[i].high =
                             MaxOf({bucket[j].high : j \in 1..Len(bucket)})
                        /\ convertedCandles[i].low =
                             MinOf({bucket[j].low : j \in 1..Len(bucket)})
                        /\ convertedCandles[i].volume = SumVolume(bucket)
    ELSE convertedCandles = filteredCandles

\* C22 (as claimed): when runStrategy is invoked, every name of the indicator
\* library resolves to the library's function of that name, whatever keys
\* the request's settings have.
C22_IndicatorsResolve ==
    Left =>
        \A i \in 1..Len(last.calls) :
            \A n \in indicators : last.calls[i].ambient[n] = Fn(n)

\* The request was answered 404 for its candle file.
CandleFileNotFound ==
    AnsweredWith({404}) /\ last.responses[1].prefix = "Candle file not found: "

SHORT == <<"S", "H", "O", "R", "T">>

\* C24 (as claimed): for a raw trade with a side, the reported side is the
\* raw side in upper case; a raw order type (or MARKET when there is none)
\* that mentions BUY or SELL is reported as it is, and one that mentions
\* neither is reported with "BUY " in front exactly when the side is LONG and
\* with "SELL " in front exactly when the side is SHORT.
C24_PrefixBySide ==
    ~normalizedResult.threw =>
        LET kept == SelectSeq(RawTrades, HasPositiveBalance)
        IN  \A i \in 1..Len(Reported) :
              LET rawSide == Field(kept[i], "side")
                  rawType == IF IsTruthy(Field(kept[i], "order_type"))
                             THEN Field(kept[i], "order_type").s ELSE MARKET
                  mentions == includes(rawType, BUY) \/ includes(rawType, SELL)
                  out == Reported[i]
              IN  IsTruthy(rawSide) =>
                    /\ out["side"] = Text(toUpperCase(rawSide.s))
                    /\ mentions => out["order_type"].s = rawType
                    /\ ~mentions =>
                          /\ (out["order_type"].s = BUY \o <<" ">> \o rawType)
                                <=> (out["side"].s = LONG)
                          /\ (out["order_type"].s = SELL \o <<" ">> \o rawType)
                                <=> (out["side"].s = SHORT)

\* The number a counter of the response holds.
CountValue ==
    ("0" :> 0) @@ ("1" :> 1) @@ ("2" :> 2) @@ ("3" :> 3) @@ ("4" :> 4)

\* C25 (as claimed): the total_trades of the response is the number of
\* trades in the response, and the long and short counters together, and the
\* winning and losing counters together, do not exceed it.
C25_TotalTradesIsLength ==
    ~normalizedResult.threw =>
        LET count(k) == CountValue[normalizedResult.summary[k].v]
        IN  /\ count("total_trades") = Len(Reported)
            /\ count("long_trades") + count("short_trades") <= Len(Reported)
            /\ count("winning_trades") + count("losing_trades") <= Len(Reported)

\* What a request that runs every step leaves in its log, reading file f.
FullLog(f) ==
    <<"existsSync:plain", "existsSync:" \o f, "readFileSync:" \o f,
      "global:indicators", "global:settings", "eval", "runStrategy">>

\* The request left on one of the early exits: 404 or 400.
EarlyExit == Left /\ AnsweredWith({400, 404})

\* The steps a request has taken are an initial stretch of the fixed order,
\* none of them before the strategy was retrieved, cleaned and found to hold
\* the marker; the candles runStrategy gets are parsed, then cut to the date
\* range, then resampled; an early exit has evaluated nothing and written
\* no global name.
StepsInOrder ==
    Left =>
        /\ last.log # <<>> => (GotText /\ IncludesMarker(LastClean))
        /\ Len(last.log) <= Len(FullLog(LastFile))
        /\ last.log = SubSeq(FullLog(LastFile), 1, Len(last.log))
        /\ last.calls # <<>> =>
              /\ InLog("runStrategy")
              /\ last.calls[1].candles =
                    convertTimeframe(
                       DateFilter(ParseCsv(CsvText(LastFile)),
                                  SettingsOf(last.body)),
                       Get(SettingsOf(last.body), "timeframe"))
        /\ EarlyExit =>
              /\ \A e \in {"global:indicators", "global:settings", "eval",
                            "runStrategy"} : ~InLog(e)
              /\ last.calls = <<>>

\* A step on which a request leaves by an early exit writes no global name.
EarlyExitWritesNothing == EarlyExit' => glob' = glob

\* C26: within a request the steps occur in the fixed order retrieval,
\* cleaning and marker check, candle lookup, parsing, date filter,
\* resampling, indicator and settings exposure, evaluation; and on every
\* early exit (404 strategy, 404 no code, 400 missing marker, 404 candle
\* file) no strategy text has been evaluated and no global name written.
C26_StepOrder == []StepsInOrder /\ [][EarlyExitWritesNothing]_vars

\* A request ran every step, in order, and was answered with a result.
C26_Witness ==
    /\ Left /\ AnsweredWith({200})
    /\ last.log = FullLog(LastFile)

\* C27: whatever other requests are in flight, at every invocation of
\* runStrategy each global name written from the request's normalized
\* settings holds that request's value.
C27_ExposureToCallAtomic ==
    Left =>
        \A i \in 1..Len(last.calls) :
            LET call == last.calls[i]
            IN  /\ call.settings = communitySettings(SettingsOf(last.body))
                /\ \A k \in DOMAIN call.settings :
                      call.ambient[k] = call.settings[k]

\* A request ran its strategy while a request with other settings was waiting
\* at one of its awaits.
C27_Witness ==
    /\ Left /\ last.calls # <<>>
    /\ \E r \in Requests :
          /\ pc[r] \in {"fetch", "json"}
          /\ inflight[r] \in Bodies
          /\ LET mine == communitySettings(SettingsOf(last.body))
                 theirs == communitySettings(SettingsOf(inflight[r]))
             IN  \E k \in DOMAIN mine \cap DOMAIN theirs : mine[k] # theirs[k]

====
